---- MODULE Spec2Model ----
(***************************************************************************)
(* StackScope (src/StackScope.h): a stack/heap profiler for the ATmega328P. *)
(* The monitor keeps four static variables, paints the free RAM between    *)
(* the heap end and the stack pointer with a pattern byte, and on every    *)
(* 256th StackScope_Check() scans the painted region and writes a ten-byte *)
(* frame to the UART data register.                                        *)
(*                                                                         *)
(* The model keeps the program's constants and its 16-bit arithmetic.  The *)
(* hardware the code reads is state of the model: the stack pointer SP,    *)
(* the allocator's __brkval, the RAM bytes from __heap_start to RAMEND and *)
(* the bytes written to UDR0.                                              *)
(***************************************************************************)
EXTENDS Integers, Sequences, FiniteSets, TLC

(***************************************************************************)
(* Program constants (src/StackScope.h:18-37).                             *)
(***************************************************************************)
STACKSCOPE_HEADER == 254
STACKSCOPE_HANDSHAKE == 165
STACKSCOPE_RATE_LIMIT == 256
STACKSCOPE_ALERT_THRESHOLD == 50
STACKSCOPE_PAINT_PATTERN == 170
STACKSCOPE_RAMSTART == 256
STACKSCOPE_RAMSIZE == 2048
STACKSCOPE_FLAG_ALERT == 1
STACKSCOPE_FLAG_COLLISION == 2
STACKSCOPE_FLAG_PEAK_NEW == 4
STACKSCOPE_FLAG_HEAP_ACTIVE == 8

\* The literal 32 of StackScope_PaintStack and the literal 16 of StackScope_Check.
PAINT_MARGIN == 32
COLLISION_MARGIN == 16

\* RAMEND of <avr/io.h> for the ATmega328P: the last RAM address, 0x08FF.
RAMEND == STACKSCOPE_RAMSTART + STACKSCOPE_RAMSIZE - 1

\* uint16_t and uint8_t.
WORD == 65536
BYTE == 256

(***************************************************************************)
(* Bounds of the model.                                                    *)
(***************************************************************************)
\* Bytes of RAM above the linker symbol __heap_start (the program's .data
\* and .bss fill the rest of the 2048 bytes).
FreeRam == 96
\* Number of counter values on each side of the 16-bit wrap and of 0 that a
\* rate-limit window may start from.
StartSpan == 130
\* Enabled StackScope_Check() calls the lifecycle model follows after the
\* counter was zeroed, and on each side of the first sampling call.
NearCalls == 1

\* &__heap_start
heap_start == RAMEND + 1 - FreeRam

Addr == heap_start..RAMEND

U16(x) == x % WORD
U8(x) == x % BYTE

RECURSIVE BitAnd(_, _)
BitAnd(a, b) ==
    IF a = 0 \/ b = 0 THEN 0
    ELSE (a % 2) * (b % 2) + 2 * BitAnd(a \div 2, b \div 2)

BitOr(a, b) == a + b - BitAnd(a, b)

Min(a, b) == IF a < b THEN a ELSE b


(***************************************************************************)
(* State.                                                                  *)
(***************************************************************************)
VARIABLES
    stackscope_enabled,       \* static volatile uint8_t, 0 or 1
    stackscope_call_counter,  \* static volatile uint16_t
    stackscope_peak_usage,    \* static volatile uint16_t
    stackscope_painted_end,   \* static volatile uint16_t
    SP,                       \* the stack pointer register (0x3D/0x3E)
    brkval,                   \* __brkval, 0 while nothing was allocated
    mem,                      \* the RAM bytes at __heap_start..RAMEND
    op,                       \* the operation that ran last
    tx,                       \* the bytes that operation wrote to UDR0
    painted,                  \* the addresses that operation painted
    low_write,                \* lowest address the stack wrote since the last
                              \* completed paint, RAMEND + 1 when none
    last_paint,               \* how the latest StackScope_PaintStack ended:
                              \* "none", "done" or "skipped"
    wlen,                     \* calls of StackScope_Check in the observed window
    wsent,                    \* frames sent in the observed window
    isr_writes,               \* monitor variables written in interrupt context
    load_lo,                  \* low byte of a 16-bit load in progress, or -1
    load_seen,                \* the value the latest 16-bit load produced, or -1
    load_held,                \* the values the variable held during that load
    pc,                       \* where the main loop is: "idle" outside the
                              \* monitor, "scan" in the loop of lines 87-92,
                              \* "send" in the sends of lines 166-171
    scan_ptr,                 \* the pointer scan of StackScope_GetPaintedUsage
    txq,                      \* the bytes of the frame not yet written to UDR0
    udre,                     \* bit UDRE0 of UCSR0A: 1 when UDR0 takes a byte
    ret                       \* the value StackScope_GetPaintedUsage returned
                              \* when it was called on its own, -1 before that

monitor == <<stackscope_enabled, stackscope_call_counter,
             stackscope_peak_usage, stackscope_painted_end>>
hardware == <<SP, brkval, mem>>
window == <<wlen, wsent>>
interrupt == <<isr_writes, load_lo, load_seen, load_held>>
call == <<pc, scan_ptr, txq, udre, ret>>

(***************************************************************************)
(* The functions of src/StackScope.h.                                      *)
(***************************************************************************)
\* Mutant: the null test is missing.
GetHeapUsage_m(brk) == U16(brk - heap_start)

\* StackScope_GetHeapUsage
GetHeapUsage(brk) ==
    IF brk = 0 THEN 0 ELSE U16(brk - heap_start)

\* StackScope_GetHeapEnd
GetHeapEnd(brk) ==
    IF brk = 0 THEN heap_start ELSE brk

\* Mutant: the margin is the collision margin.
PaintEnd_m(sp) == U16(sp - COLLISION_MARGIN)

\* paint_end = (uint8_t *)(sp - 32)
PaintEnd(sp) == U16(sp - PAINT_MARGIN)

\* for (p = paint_start; p < paint_end; p++) *p = STACKSCOPE_PAINT_PATTERN;
\* The result is the memory after the loop and the addresses it wrote.
RECURSIVE PaintLoop(_, _, _, _)
PaintLoop(p, paint_end, m, w) ==
    IF p < paint_end
    THEN PaintLoop(p + 1, paint_end,
                   [m EXCEPT ![p] = STACKSCOPE_PAINT_PATTERN], w \cup {p})
    ELSE [m |-> m, w |-> w]

\* if (paint_end > paint_start)
PaintRoom(paint_start, paint_end) == paint_end > paint_start

\* Mutant: a paint that finds no room records its end all the same.
PaintStack_m(sp, brk, m, pe) ==
    LET paint_start == GetHeapEnd(brk)
        paint_end == PaintEnd(sp)
    IN  IF PaintRoom(paint_start, paint_end)
        THEN LET r == PaintLoop(paint_start, paint_end, m, {})
             IN  [m |-> r.m, pe |-> paint_end, w |-> r.w, done |-> TRUE]
        ELSE [m |-> m, pe |-> paint_end, w |-> {}, done |-> FALSE]

\* StackScope_PaintStack: the memory, the painted end and the written
\* addresses it leaves, from the stack pointer, the break, the memory and
\* the painted end it finds.
PaintStack(sp, brk, m, pe) ==
    LET paint_start == GetHeapEnd(brk)
        paint_end == PaintEnd(sp)
    IN  IF PaintRoom(paint_start, paint_end)
        THEN LET r == PaintLoop(paint_start, paint_end, m, {})
             IN  [m |-> r.m, pe |-> paint_end, w |-> r.w, done |-> TRUE]
        ELSE [m |-> m, pe |-> pe, w |-> {}, done |-> FALSE]

\* Where the scan starts: scan = (uint8_t *)stackscope_painted_end.
ScanStart(pe) == pe

\* while (scan > heap_end) { if (*scan != PATTERN) break; scan--; }
RECURSIVE ScanLoop(_, _, _)
ScanLoop(scan, heap_end, m) ==
    IF scan > heap_end /\ m[scan] = STACKSCOPE_PAINT_PATTERN
    THEN ScanLoop(scan - 1, heap_end, m)
    ELSE scan

\* if (stackscope_painted_end == 0)
NeverPainted(pe) == pe = 0

\* Mutant: the fallback subtracts RAMEND from the stack pointer.
GetPaintedUsage_m(pe, sp, brk, m) ==
    IF NeverPainted(pe)
    THEN U16(sp - RAMEND)
    ELSE U16(RAMEND - ScanLoop(ScanStart(pe), GetHeapEnd(brk), m))

\* StackScope_GetPaintedUsage
GetPaintedUsage(pe, sp, brk, m) ==
    IF NeverPainted(pe)
    THEN U16(RAMEND - sp)
    ELSE U16(RAMEND - ScanLoop(ScanStart(pe), GetHeapEnd(brk), m))

\* Mutant: the low byte goes first.
SendWord_m(data) == <<BitAnd(data, 255), U8(data \div BYTE)>>

\* StackScope_SendWord: the high byte, then the low byte.
SendWord(data) == <<U8(data \div BYTE), BitAnd(data, 255)>>

\* StackScope_IsHandshakeByte
IsHandshakeByte(byte) == IF byte = STACKSCOPE_HANDSHAKE THEN 1 ELSE 0

\* Mutant: the enabled test is missing.
CheckDisabled_m(en) == FALSE

\* if (!stackscope_enabled) return;
CheckDisabled(en) == en = 0

\* stackscope_call_counter++
NextCounter(c) == U16(c + 1)

\* Mutant: the mask is the rate limit itself.
RateSkip_m(c) == BitAnd(c, STACKSCOPE_RATE_LIMIT) /= 0

\* if ((stackscope_call_counter & (STACKSCOPE_RATE_LIMIT - 1)) != 0) return;
RateSkip(c) == BitAnd(c, STACKSCOPE_RATE_LIMIT - 1) /= 0

\* Mutant: the subtraction is not guarded.
FreeMemory_m(sp, heap_end) == U16(sp - heap_end)

\* free_memory = (sp > heap_end) ? (sp - heap_end) : 0
FreeMemory(sp, heap_end) == IF sp > heap_end THEN U16(sp - heap_end) ELSE 0

\* Mutant: the peak follows every sample that differs from it.
PeakRaised_m(stack_usage, peak) == stack_usage /= peak

\* if (stack_usage > stackscope_peak_usage)
PeakRaised(stack_usage, peak) == stack_usage > peak

\* Mutant: the alert threshold is the collision margin.
IsAlert_m(free_memory) == free_memory < COLLISION_MARGIN

\* if (free_memory < STACKSCOPE_ALERT_THRESHOLD)
IsAlert(free_memory) == free_memory < STACKSCOPE_ALERT_THRESHOLD

\* Mutant: the comparison is strict.
IsCollision_m(sp, heap_end) == sp < U16(heap_end + COLLISION_MARGIN)

\* if (sp <= heap_end + 16)
IsCollision(sp, heap_end) == sp <= U16(heap_end + COLLISION_MARGIN)

\* if (heap_usage > 0)
IsHeapActive(heap_usage) == heap_usage > 0

\* Mutant: PeakNew is set when the sample equals the peak as well.
Flags_m(stack_usage, peak, heap_usage, free_memory, sp, heap_end) ==
    LET f1 == IF stack_usage >= peak
              THEN BitOr(0, STACKSCOPE_FLAG_PEAK_NEW) ELSE 0
        f2 == IF IsAlert(free_memory)
              THEN BitOr(f1, STACKSCOPE_FLAG_ALERT) ELSE f1
        f3 == IF IsCollision(sp, heap_end)
              THEN BitOr(f2, STACKSCOPE_FLAG_COLLISION) ELSE f2
        f4 == IF IsHeapActive(heap_usage)
              THEN BitOr(f3, STACKSCOPE_FLAG_HEAP_ACTIVE) ELSE f3
    IN  f4

\* The flags byte of a sample.
Flags(stack_usage, peak, heap_usage, free_memory, sp, heap_end) ==
    LET f1 == IF PeakRaised(stack_usage, peak)
              THEN BitOr(0, STACKSCOPE_FLAG_PEAK_NEW) ELSE 0
        f2 == IF IsAlert(free_memory)
              THEN BitOr(f1, STACKSCOPE_FLAG_ALERT) ELSE f1
        f3 == IF IsCollision(sp, heap_end)
              THEN BitOr(f2, STACKSCOPE_FLAG_COLLISION) ELSE f2
        f4 == IF IsHeapActive(heap_usage)
              THEN BitOr(f3, STACKSCOPE_FLAG_HEAP_ACTIVE) ELSE f3
    IN  f4

\* The ten StackScope_SendByte calls that end StackScope_Check.
Frame(flags, stack_usage, peak, heap_usage, free_memory) ==
    <<STACKSCOPE_HEADER, flags>> \o SendWord(stack_usage) \o SendWord(peak)
        \o SendWord(heap_usage) \o SendWord(free_memory)

FrameLen == Len(Frame(0, 0, 0, 0, 0))

(***************************************************************************)
(* The public operations, one action each.                                 *)
(***************************************************************************)
\* StackScope_Init
Init_ ==
    LET r == PaintStack(SP, brkval, mem, stackscope_painted_end)
    IN  /\ stackscope_enabled' = 0
        /\ stackscope_call_counter' = 0
        /\ stackscope_peak_usage' = 0
        /\ stackscope_painted_end' = r.pe
        /\ mem' = r.m
        /\ painted' = r.w
        /\ low_write' = IF r.done THEN RAMEND + 1 ELSE low_write
        /\ last_paint' = IF r.done THEN "done" ELSE "skipped"
        /\ op' = "Init"
        /\ tx' = <<>>
        /\ UNCHANGED <<SP, brkval>>

\* Mutant: the handshake starts the peak and the counter over.
TriggerHandshake_m ==
    LET r == PaintStack(SP, brkval, mem, stackscope_painted_end)
    IN  /\ stackscope_enabled' = 1
        /\ stackscope_call_counter' = 0
        /\ stackscope_peak_usage' = 0
        /\ stackscope_painted_end' = r.pe
        /\ mem' = r.m
        /\ painted' = r.w
        /\ low_write' = IF r.done THEN RAMEND + 1 ELSE low_write
        /\ last_paint' = IF r.done THEN "done" ELSE "skipped"
        /\ op' = "TriggerHandshake"
        /\ tx' = <<>>
        /\ UNCHANGED <<SP, brkval>>

\* StackScope_TriggerHandshake
TriggerHandshake ==
    LET r == PaintStack(SP, brkval, mem, stackscope_painted_end)
    IN  /\ stackscope_enabled' = 1
        /\ stackscope_painted_end' = r.pe
        /\ mem' = r.m
        /\ painted' = r.w
        /\ low_write' = IF r.done THEN RAMEND + 1 ELSE low_write
        /\ last_paint' = IF r.done THEN "done" ELSE "skipped"
        /\ op' = "TriggerHandshake"
        /\ tx' = <<>>
        /\ UNCHANGED <<stackscope_call_counter, stackscope_peak_usage,
                       SP, brkval>>

\* Mutant: the reset clears the enable flag with the peak.
ResetPeak_m ==
    /\ stackscope_peak_usage' = 0
    /\ stackscope_enabled' = 0
    /\ op' = "ResetPeak"
    /\ tx' = <<>>
    /\ painted' = {}
    /\ UNCHANGED <<stackscope_call_counter, stackscope_painted_end, hardware,
                   low_write, last_paint>>

\* StackScope_ResetPeak
ResetPeak ==
    /\ stackscope_peak_usage' = 0
    /\ op' = "ResetPeak"
    /\ tx' = <<>>
    /\ painted' = {}
    /\ UNCHANGED <<stackscope_enabled, stackscope_call_counter,
                   stackscope_painted_end, hardware, low_write,
                   last_paint>>

\* StackScope_IsHandshakeByte(byte): a pure test, op tells its result.
HandshakeByte(byte) ==
    /\ op' = IF IsHandshakeByte(byte) = 1
             THEN "IsHandshakeByte=1" ELSE "IsHandshakeByte=0"
    /\ tx' = <<>>
    /\ painted' = {}
    /\ UNCHANGED <<monitor, hardware, low_write, last_paint>>

\* Mutant: the frame carries the peak as it was before the sample.
Sample_m(stack_usage) ==
    LET heap_usage == GetHeapUsage(brkval)
        heap_end == GetHeapEnd(brkval)
        sp == SP
        free_memory == FreeMemory(sp, heap_end)
        flags == Flags(stack_usage, stackscope_peak_usage, heap_usage,
                       free_memory, sp, heap_end)
        peak == IF PeakRaised(stack_usage, stackscope_peak_usage)
                THEN stack_usage ELSE stackscope_peak_usage
    IN  [peak |-> peak,
         frame |-> Frame(flags, stack_usage, stackscope_peak_usage,
                         heap_usage, free_memory)]

\* Lines 146-171 of StackScope_Check, after stack_usage was measured: the
\* peak they leave and the frame they send.
Sample(stack_usage) ==
    LET heap_usage == GetHeapUsage(brkval)
        heap_end == GetHeapEnd(brkval)
        sp == SP
        free_memory == FreeMemory(sp, heap_end)
        flags == Flags(stack_usage, stackscope_peak_usage, heap_usage,
                       free_memory, sp, heap_end)
        peak == IF PeakRaised(stack_usage, stackscope_peak_usage)
                THEN stack_usage ELSE stackscope_peak_usage
    IN  [peak |-> peak,
         frame |-> Frame(flags, stack_usage, peak, heap_usage, free_memory)]

\* StackScope_Check
Check ==
    /\ op' = "Check"
    /\ painted' = {}
    /\ UNCHANGED <<stackscope_enabled, stackscope_painted_end, hardware,
                   low_write, last_paint>>
    /\ IF CheckDisabled(stackscope_enabled)
       THEN /\ tx' = <<>>
            /\ UNCHANGED <<stackscope_call_counter, stackscope_peak_usage>>
       ELSE LET c == NextCounter(stackscope_call_counter)
            IN  /\ stackscope_call_counter' = c
                /\ IF RateSkip(c)
                   THEN /\ tx' = <<>>
                        /\ UNCHANGED stackscope_peak_usage
                   ELSE LET r == Sample(GetPaintedUsage(
                                     stackscope_painted_end, SP, brkval, mem))
                        IN  /\ stackscope_peak_usage' = r.peak
                            /\ tx' = r.frame

\* Mutant: the scan leaves the painted end where it stopped.
CallGetPaintedUsage_m ==
    /\ ret' = GetPaintedUsage(stackscope_painted_end, SP, brkval, mem)
    /\ stackscope_painted_end' =
           IF NeverPainted(stackscope_painted_end)
           THEN stackscope_painted_end
           ELSE ScanLoop(ScanStart(stackscope_painted_end),
                         GetHeapEnd(brkval), mem) - 1
    /\ op' = "GetPaintedUsage"
    /\ tx' = <<>>
    /\ painted' = {}
    /\ UNCHANGED <<stackscope_enabled, stackscope_call_counter,
                   stackscope_peak_usage, hardware, low_write, last_paint,
                   pc, scan_ptr, txq, udre>>

\* StackScope_GetPaintedUsage called on its own: it loads, compares and
\* returns, and has no store.
CallGetPaintedUsage ==
    /\ ret' = GetPaintedUsage(stackscope_painted_end, SP, brkval, mem)
    /\ op' = "GetPaintedUsage"
    /\ tx' = <<>>
    /\ painted' = {}
    /\ UNCHANGED <<monitor, hardware, low_write, last_paint,
                   pc, scan_ptr, txq, udre>>

(***************************************************************************)
(* The same operations at the grain of the receive interrupt.  The         *)
(* interrupt handler calls StackScope_TriggerHandshake(); it can preempt   *)
(* the main loop between two instructions, and the 16-bit load of          *)
(* stackscope_painted_end at line 82 is two instructions, the low byte     *)
(* first.  The handler itself runs with interrupts off, in one step.       *)
(***************************************************************************)
\* A sampling StackScope_Check up to the first half of the load at line 82.
CheckBegin ==
    /\ load_lo = -1
    /\ ~CheckDisabled(stackscope_enabled)
    /\ ~RateSkip(NextCounter(stackscope_call_counter))
    /\ stackscope_call_counter' = NextCounter(stackscope_call_counter)
    /\ load_lo' = stackscope_painted_end % BYTE
    /\ load_seen' = -1
    /\ load_held' = {stackscope_painted_end}
    /\ op' = "Check"
    /\ tx' = <<>>
    /\ painted' = {}
    /\ UNCHANGED <<stackscope_enabled, stackscope_peak_usage,
                   stackscope_painted_end, hardware, low_write, last_paint,
                   isr_writes>>

\* The second half of the load, and the rest of StackScope_Check: the
\* comparison with 0 uses the two bytes as loaded, the scan loads the
\* painted end again.
CheckEnd ==
    /\ load_lo /= -1
    /\ LET seen == (stackscope_painted_end \div BYTE) * BYTE + load_lo
           stack_usage ==
               IF NeverPainted(seen)
               THEN U16(RAMEND - SP)
               ELSE U16(RAMEND - ScanLoop(ScanStart(stackscope_painted_end),
                                          GetHeapEnd(brkval), mem))
           r == Sample(stack_usage)
       IN  /\ load_seen' = seen
           /\ stackscope_peak_usage' = r.peak
           /\ tx' = r.frame
    /\ load_lo' = -1
    /\ op' = "Check"
    /\ painted' = {}
    /\ UNCHANGED <<stackscope_enabled, stackscope_call_counter,
                   stackscope_painted_end, hardware, low_write, last_paint,
                   isr_writes, load_held>>

\* The receive interrupt: StackScope_TriggerHandshake() in interrupt
\* context.  isr_writes collects the monitor variables it stores to.
IsrTriggerHandshake ==
    /\ TriggerHandshake
    /\ isr_writes' = isr_writes \cup {"stackscope_enabled"} \cup
           (IF PaintStack(SP, brkval, mem, stackscope_painted_end).done
            THEN {"stackscope_painted_end"} ELSE {})
    /\ load_held' = IF load_lo /= -1
                    THEN load_held \cup {stackscope_painted_end'}
                    ELSE load_held
    /\ UNCHANGED <<load_lo, load_seen>>

(***************************************************************************)
(* StackScope_Check at the grain of its two loops: the scan loop of        *)
(* StackScope_GetPaintedUsage, one step per iteration, and the busy-wait   *)
(* of StackScope_WaitTX before each byte.  An iteration of the busy-wait   *)
(* that finds UDRE0 clear changes nothing: it is a stuttering step.        *)
(***************************************************************************)
\* StackScope_Check from its call to its return, to the first iteration of
\* the scan loop, or to the first StackScope_WaitTX.
CheckCall ==
    /\ pc = "idle"
    /\ op' = "Check"
    /\ tx' = <<>>
    /\ painted' = {}
    /\ UNCHANGED <<stackscope_enabled, stackscope_painted_end, hardware,
                   low_write, last_paint, udre, ret, window, interrupt>>
    /\ IF CheckDisabled(stackscope_enabled)
       THEN UNCHANGED <<stackscope_call_counter, stackscope_peak_usage,
                        pc, scan_ptr, txq>>
       ELSE LET c == NextCounter(stackscope_call_counter)
            IN  /\ stackscope_call_counter' = c
                /\ IF RateSkip(c)
                   THEN UNCHANGED <<stackscope_peak_usage, pc, scan_ptr, txq>>
                   ELSE IF NeverPainted(stackscope_painted_end)
                   THEN LET r == Sample(U16(RAMEND - SP))
                        IN  /\ stackscope_peak_usage' = r.peak
                            /\ txq' = r.frame
                            /\ pc' = "send"
                            /\ UNCHANGED scan_ptr
                   ELSE /\ pc' = "scan"
                        /\ scan_ptr' = ScanStart(stackscope_painted_end)
                        /\ UNCHANGED <<stackscope_peak_usage, txq>>

\* Mutant: the loop does not move the pointer.
ScanNext_m(p) == p

\* scan--
ScanNext(p) == p - 1

\* One test of the loop at lines 87-92: either scan-- or the end of the
\* loop, the return at line 94 and lines 146-165 of StackScope_Check.
ScanStep ==
    /\ pc = "scan"
    /\ IF /\ scan_ptr > GetHeapEnd(brkval)
          /\ mem[scan_ptr] = STACKSCOPE_PAINT_PATTERN
       THEN /\ scan_ptr' = ScanNext(scan_ptr)
            /\ UNCHANGED <<pc, stackscope_peak_usage, txq>>
       ELSE LET r == Sample(U16(RAMEND - scan_ptr))
            IN  /\ stackscope_peak_usage' = r.peak
                /\ txq' = r.frame
                /\ pc' = "send"
                /\ UNCHANGED scan_ptr
    /\ UNCHANGED <<stackscope_enabled, stackscope_call_counter,
                   stackscope_painted_end, hardware, op, tx, painted,
                   low_write, last_paint, udre, ret, window, interrupt>>

\* while (!(UCSR0A & (1 << UDRE0)));
TxReadyToSend(u) == u /= 0

\* StackScope_SendByte once StackScope_WaitTX found UDRE0 set: the store to
\* UDR0 clears UDRE0; after the last byte StackScope_Check returns.
SendByte ==
    /\ pc = "send"
    /\ TxReadyToSend(udre)
    /\ tx' = Append(tx, Head(txq))
    /\ txq' = Tail(txq)
    /\ udre' = 0
    /\ pc' = IF Tail(txq) = <<>> THEN "idle" ELSE "send"
    /\ UNCHANGED <<monitor, hardware, op, painted, low_write, last_paint,
                   scan_ptr, ret, window, interrupt>>

\* The UART has moved the byte out of UDR0 and sets UDRE0.
TxReady ==
    /\ udre = 0
    /\ udre' = 1
    /\ UNCHANGED <<monitor, hardware, op, tx, painted, low_write, last_paint,
                   pc, scan_ptr, txq, ret, window, interrupt>>

(***************************************************************************)
(* The program around the monitor: it moves the stack and the heap.        *)
(***************************************************************************)
\* Between two calls of the monitor the stack grows down from SP to e bytes
\* below the lower of SP and s, writing byte v to every address from SP down
\* to d, and comes back to s.
StackActivity(s, e, v) ==
    LET d == Min(SP, s) - e
    IN  /\ s \in Addr /\ d \in Addr
        /\ mem' = [a \in Addr |-> IF d <= a /\ a <= SP THEN v ELSE mem[a]]
        /\ SP' = s
        /\ low_write' = Min(low_write, d)
        /\ op' = "StackActivity"
        /\ tx' = <<>>
        /\ painted' = {}
        /\ UNCHANGED <<monitor, brkval, last_paint>>

\* malloc and free move __brkval to b.
HeapActivity(b) ==
    /\ b \in Addr
    /\ b /= brkval
    /\ brkval' = b
    /\ op' = "HeapActivity"
    /\ tx' = <<>>
    /\ painted' = {}
    /\ UNCHANGED <<monitor, SP, mem, low_write, last_paint>>

\* The stack runs from SP down to the lower of SP and s, which may lie below
\* __heap_start, in .data and .bss, and comes back to s: it writes byte v to
\* every address on its way; the model holds those at __heap_start and above.
StackOverrun(s, v) ==
    LET d == Min(SP, s)
    IN  /\ s \in STACKSCOPE_RAMSTART..RAMEND
        /\ s /= SP
        /\ mem' = [a \in Addr |-> IF d <= a /\ a <= SP THEN v ELSE mem[a]]
        /\ SP' = s
        /\ low_write' = Min(low_write, d)
        /\ op' = "StackActivity"
        /\ tx' = <<>>
        /\ painted' = {}
        /\ UNCHANGED <<monitor, brkval, last_paint>>

vars == <<stackscope_enabled, stackscope_call_counter, stackscope_peak_usage,
          stackscope_painted_end, SP, brkval, mem, op, tx, painted,
          low_write, last_paint, wlen, wsent, isr_writes, load_lo, load_seen,
          load_held, pc, scan_ptr, txq, udre, ret>>

(***************************************************************************)
(* Inputs.                                                                 *)
(***************************************************************************)
\* Stack pointers the monitor is called at: shallow, deeper, and too close
\* to __heap_start to paint.
StackTops == {RAMEND - 4, RAMEND - 40, RAMEND - 70}
\* How far below the stack pointer an excursion of the stack reaches.
Excursions == {0, 40}
\* Bytes RAM holds at power-up, and bytes the stack writes.
RamBytes == {0, STACKSCOPE_PAINT_PATTERN}
\* Bytes received from the UART.
RxBytes == {STACKSCOPE_HANDSHAKE, 0}

\* The stack pointer that is too close to __heap_start to paint.
DeepTop == RAMEND - 70

\* Nothing observed yet: no window of calls, no interrupt, no load; the
\* main loop is outside the monitor and the UART is ready.
Unobserved ==
    /\ wlen = 0
    /\ wsent = 0
    /\ isr_writes = {}
    /\ load_lo = -1
    /\ load_seen = -1
    /\ load_held = {}
    /\ pc = "idle"
    /\ scan_ptr = 0
    /\ txq = <<>>
    /\ udre = 1
    /\ ret = -1

\* The state after the static initialisers (lines 42-45), at power-up.
ColdStart ==
    /\ stackscope_enabled = 0
    /\ stackscope_call_counter = 0
    /\ stackscope_peak_usage = 0
    /\ stackscope_painted_end = 0
    /\ SP \in StackTops
    /\ brkval = 0
    /\ mem \in {[a \in Addr |-> v] : v \in RamBytes}
    /\ op = "reset"
    /\ tx = <<>>
    /\ painted = {}
    /\ low_write = RAMEND + 1
    /\ last_paint = "none"
    /\ Unobserved

\* The state c calls of StackScope_Check() after a handshake that came
\* with the stack at DeepTop, where SP - 32 <= __heap_start: nothing was
\* painted, the samples so far (if c reached the rate limit) fell back to
\* RAMEND - SP, and the latest call sent nothing.
WarmStart(c) ==
    /\ stackscope_enabled = 1
    /\ stackscope_call_counter = c
    /\ stackscope_peak_usage =
           IF c >= STACKSCOPE_RATE_LIMIT THEN RAMEND - DeepTop ELSE 0
    /\ stackscope_painted_end = 0
    /\ SP = DeepTop
    /\ brkval = 0
    /\ mem \in {[a \in Addr |-> v] : v \in RamBytes}
    /\ op = "Check"
    /\ tx = <<>>
    /\ painted = {}
    /\ low_write = RAMEND + 1
    /\ last_paint = "skipped"
    /\ Unobserved

\* The calls of StackScope_Check() the lifecycle model follows: those of a
\* disabled monitor and those whose counter is within NearCalls of a
\* multiple of the rate limit, where the sampling call is.
Followed ==
    \/ stackscope_enabled = 0
    \/ stackscope_call_counter % STACKSCOPE_RATE_LIMIT < NearCalls
    \/ stackscope_call_counter % STACKSCOPE_RATE_LIMIT
           >= STACKSCOPE_RATE_LIMIT - 1 - NearCalls

Init ==
    \/ ColdStart
    \/ WarmStart(STACKSCOPE_RATE_LIMIT - 1 - NearCalls)
    \/ WarmStart(2 * STACKSCOPE_RATE_LIMIT - 1 - NearCalls)

\* The lifecycle model: every public operation, from power-up; the stack
\* moves between the StackTops writing zero bytes, the heap grows once.
Next ==
    \/ Init_ /\ UNCHANGED <<window, interrupt, call>>
    \/ TriggerHandshake /\ UNCHANGED <<window, interrupt, call>>
    \/ ResetPeak /\ UNCHANGED <<window, interrupt, call>>
    \/ \E byte \in RxBytes :
           HandshakeByte(byte) /\ UNCHANGED <<window, interrupt, call>>
    \/ Followed /\ Check /\ UNCHANGED <<window, interrupt, call>>
    \/ \E s \in StackTops :
           StackActivity(s, 0, 0) /\ UNCHANGED <<window, interrupt, call>>
    \/ HeapActivity(heap_start + 40) /\ UNCHANGED <<window, interrupt, call>>

Spec == Init /\ [][Next]_vars

\* The scan model: an enabled monitor one call before its first sample; the
\* stack leaves DeepTop, makes excursions below its top and writes either
\* byte, the heap grows, the handshake repaints.
InitScan == WarmStart(STACKSCOPE_RATE_LIMIT - 1)

NextScan ==
    \/ TriggerHandshake /\ UNCHANGED <<window, interrupt, call>>
    \/ Followed /\ Check /\ UNCHANGED <<window, interrupt, call>>
    \/ \E s \in StackTops \ {DeepTop}, e \in Excursions, v \in RamBytes :
           StackActivity(s, e, v) /\ UNCHANGED <<window, interrupt, call>>
    \/ HeapActivity(heap_start + 40) /\ UNCHANGED <<window, interrupt, call>>

SpecScan == InitScan /\ [][NextScan]_vars

\* The dense model: every stack pointer and every heap break of the
\* modelled RAM.  The monitor is either still disabled, as at power-up, or
\* enabled, unpainted and one call before a sample; the stack wrote zero
\* bytes on its way from DeepTop.
InitDense ==
    /\ \/ /\ stackscope_enabled = 0
          /\ stackscope_call_counter = 0
          /\ stackscope_peak_usage = 0
          /\ last_paint = "none"
       \/ /\ stackscope_enabled = 1
          /\ stackscope_call_counter \in
                 {STACKSCOPE_RATE_LIMIT - 1, 2 * STACKSCOPE_RATE_LIMIT - 1}
          /\ stackscope_peak_usage =
                 IF stackscope_call_counter >= STACKSCOPE_RATE_LIMIT
                 THEN RAMEND - DeepTop ELSE 0
          /\ last_paint = "skipped"
    /\ stackscope_painted_end = 0
    /\ SP \in Addr
    /\ brkval \in {0} \cup Addr
    /\ mem = [a \in Addr |-> 0]
    /\ op = "StackActivity"
    /\ tx = <<>>
    /\ painted = {}
    /\ low_write = Min(DeepTop, SP)
    /\ Unobserved

NextDense ==
    \/ Followed /\ Check /\ UNCHANGED <<window, interrupt, call>>
    \/ TriggerHandshake /\ UNCHANGED <<window, interrupt, call>>

SpecDense == InitDense /\ [][NextDense]_vars

\* The call model: the lifecycle of an enabled monitor one call before its
\* first sample, with StackScope_GetPaintedUsage also called on its own,
\* between any two other operations; the stack makes excursions below its
\* top.
InitCall == WarmStart(STACKSCOPE_RATE_LIMIT - 1)

NextCall ==
    \/ Init_ /\ UNCHANGED <<window, interrupt, call>>
    \/ TriggerHandshake /\ UNCHANGED <<window, interrupt, call>>
    \/ ResetPeak /\ UNCHANGED <<window, interrupt, call>>
    \/ Followed /\ Check /\ UNCHANGED <<window, interrupt, call>>
    \/ CallGetPaintedUsage /\ UNCHANGED <<window, interrupt>>
    \/ \E s \in {RAMEND - 4, DeepTop}, e \in Excursions :
           StackActivity(s, e, 0) /\ UNCHANGED <<window, interrupt, call>>
    \/ HeapActivity(heap_start + 40) /\ UNCHANGED <<window, interrupt, call>>

SpecCall == InitCall /\ [][NextCall]_vars

\* The transport model: an enabled, unpainted monitor one call before its
\* first sample, StackScope_Check at the grain of its loops, and the UART.
\* The processor keeps running, so an enabled step of the scan loop or of a
\* send is taken; nothing makes the UART set UDRE0 again.
InitTx == WarmStart(STACKSCOPE_RATE_LIMIT - 1)

NextTx ==
    \/ Followed /\ CheckCall
    \/ ScanStep
    \/ SendByte
    \/ TxReady
    \/ /\ pc = "idle"
       /\ TriggerHandshake
       /\ UNCHANGED <<window, interrupt, call>>
    \/ \E s \in StackTops :
           /\ pc = "idle"
           /\ StackActivity(s, 0, 0)
           /\ UNCHANGED <<window, interrupt, call>>
    \/ /\ pc = "idle"
       /\ HeapActivity(heap_start + 40)
       /\ UNCHANGED <<window, interrupt, call>>

SpecTx ==
    InitTx /\ [][NextTx]_vars /\ WF_vars(ScanStep) /\ WF_vars(SendByte)

\* Stack pointers of the wide model: the bottom of RAM, the last byte of
\* .bss, an address too close to __heap_start to paint, the lowest one
\* that leaves a byte to paint, and two at the top of RAM.
WideTops ==
    {STACKSCOPE_RAMSTART, heap_start - 1, heap_start + 20,
     heap_start + PAINT_MARGIN + 1, RAMEND - 4, RAMEND}
\* Heap breaks of the wide model: never allocated, empty again, in use, and
\* the heap up to the top of RAM.
WideBreaks == {0, heap_start, heap_start + 40, RAMEND}

\* The wide model: the stack pointer anywhere in RAM, also below
\* __heap_start where the stack has run into .bss, and the heap break up to
\* RAMEND.  The monitor is enabled, unpainted and one call before a sample,
\* as in WarmStart; the stack then wrote zero bytes on its way down from
\* DeepTop.
InitWide ==
    /\ stackscope_enabled = 1
    /\ stackscope_call_counter = STACKSCOPE_RATE_LIMIT - 1
    /\ stackscope_peak_usage = 0
    /\ stackscope_painted_end = 0
    /\ SP \in WideTops
    /\ brkval \in WideBreaks
    /\ mem = [a \in Addr |-> 0]
    /\ op = "StackActivity"
    /\ tx = <<>>
    /\ painted = {}
    /\ low_write = Min(DeepTop, SP)
    /\ last_paint = "skipped"
    /\ Unobserved

NextWide ==
    \/ Followed /\ Check /\ UNCHANGED <<window, interrupt, call>>
    \/ TriggerHandshake /\ UNCHANGED <<window, interrupt, call>>
    \/ \E s \in WideTops :
           StackOverrun(s, 0) /\ UNCHANGED <<window, interrupt, call>>
    \/ \E b \in WideBreaks \ {0} :
           HeapActivity(b) /\ UNCHANGED <<window, interrupt, call>>

SpecWide == InitWide /\ [][NextWide]_vars

\* The rate model: an enabled monitor whose counter is within StartSpan of
\* 0 on either side of the 16-bit wrap, and the next STACKSCOPE_RATE_LIMIT
\* calls of StackScope_Check(), counted in wlen, their frames in wsent.
StartCounters ==
    {c \in 0..(WORD - 1) : c < StartSpan \/ c >= WORD - StartSpan}

InitRate ==
    /\ stackscope_enabled = 1
    /\ stackscope_call_counter \in StartCounters
    /\ stackscope_peak_usage = 0
    /\ stackscope_painted_end = 0
    /\ SP = DeepTop
    /\ brkval = 0
    /\ mem = [a \in Addr |-> 0]
    /\ op = "ResetPeak"
    /\ tx = <<>>
    /\ painted = {}
    /\ low_write = RAMEND + 1
    /\ last_paint = "skipped"
    /\ Unobserved

NextRate ==
    /\ wlen < STACKSCOPE_RATE_LIMIT
    /\ Check
    /\ wlen' = wlen + 1
    /\ wsent' = IF tx' = <<>> THEN wsent ELSE wsent + 1
    /\ UNCHANGED <<interrupt, call>>

SpecRate == InitRate /\ [][NextRate]_vars

\* The interrupt model: an enabled, unpainted monitor one call before its
\* first sample; the handshake arrives in the receive interrupt, at any
\* point of the main loop, also in the middle of a load.
InitIsr == WarmStart(STACKSCOPE_RATE_LIMIT - 1)

NextIsr ==
    \/ CheckBegin /\ UNCHANGED <<window, call>>
    \/ CheckEnd /\ UNCHANGED <<window, call>>
    \/ IsrTriggerHandshake /\ UNCHANGED <<window, call>>
    \/ \E s \in StackTops :
           /\ load_lo = -1
           /\ StackActivity(s, 0, 0)
           /\ UNCHANGED <<window, interrupt, call>>
    \/ /\ load_lo = -1
       /\ HeapActivity(heap_start + 40)
       /\ UNCHANGED <<window, interrupt, call>>

SpecIsr == InitIsr /\ [][NextIsr]_vars

(***************************************************************************)
(* Reading a frame off the wire, as the host tool does.                    *)
(***************************************************************************)
Sampled == op = "Check" /\ tx /= <<>>
FrameWord(f, i) == f[i] * BYTE + f[i + 1]
FrameFlags(f) == f[2]
FrameStackUsage(f) == FrameWord(f, 3)
FramePeak(f) == FrameWord(f, 5)
FrameHeapUsage(f) == FrameWord(f, 7)
FrameFreeMemory(f) == FrameWord(f, 9)
HasFlag(f, bit) == BitAnd(FrameFlags(f), bit) /= 0

(***************************************************************************)
(* C1.  While the monitor is disabled, a call of StackScope_Check() at any *)
(* stack pointer and heap break writes no byte to the UART and leaves the  *)
(* call counter, the peak and the painted end as they were.                *)
(***************************************************************************)
C1_DisabledCheckIsNoOp ==
    [][(stackscope_enabled = 0 /\ op' = "Check") =>
          /\ tx' = <<>>
          /\ stackscope_call_counter' = stackscope_call_counter
          /\ stackscope_peak_usage' = stackscope_peak_usage
          /\ stackscope_painted_end' = stackscope_painted_end
          /\ stackscope_enabled' = 0
          /\ mem' = mem]_vars

\* A disabled monitor was checked with the stack pointer at the heap break.
C1_Witness ==
    /\ op = "Check"
    /\ stackscope_enabled = 0
    /\ brkval /= 0
    /\ SP = brkval

(***************************************************************************)
(* C2, as stated: once enabled, the monitor stays enabled whatever public  *)
(* operation runs, StackScope_Init() included.                             *)
(***************************************************************************)
C2_NeverDisabledAgain ==
    [][stackscope_enabled = 1 => stackscope_enabled' = 1]_vars

(***************************************************************************)
(* C2, amended.  Once enabled, the monitor stays enabled across            *)
(* StackScope_Check, StackScope_ResetPeak, StackScope_TriggerHandshake and *)
(* StackScope_IsHandshakeByte; StackScope_Init() is the one operation that *)
(* disables it again.                                                      *)
(***************************************************************************)
C2_OnlyInitDisables ==
    [][stackscope_enabled = 1 =>
          (stackscope_enabled' = 0 <=> op' = "Init")]_vars

\* An enabled monitor stayed enabled through a second handshake.
C2_Witness ==
    /\ stackscope_enabled = 1
    /\ op = "TriggerHandshake"
    /\ stackscope_call_counter = STACKSCOPE_RATE_LIMIT

(***************************************************************************)
(* C5.  No call of StackScope_Check() lowers the peak; ResetPeak() makes   *)
(* it 0; and a peak of 0 stays 0 until a sampling StackScope_Check() whose *)
(* stack usage is above 0, which makes it that usage.                      *)
(***************************************************************************)
C5_PeakMonotone ==
    [][/\ op' = "Check" => stackscope_peak_usage' >= stackscope_peak_usage
       /\ op' = "ResetPeak" => stackscope_peak_usage' = 0
       /\ (stackscope_peak_usage = 0 /\ stackscope_peak_usage' /= 0) =>
              /\ op' = "Check" /\ tx' /= <<>>
              /\ FrameStackUsage(tx') > 0
       /\ (stackscope_peak_usage = 0 /\ op' = "Check" /\ tx' /= <<>>) =>
              stackscope_peak_usage' = FrameStackUsage(tx')]_vars

\* A sample below the peak was taken and the peak stayed above it.
C5_Witness ==
    /\ Sampled
    /\ FrameStackUsage(tx) < stackscope_peak_usage
    /\ FramePeak(tx) = stackscope_peak_usage

(***************************************************************************)
(* C7.  StackScope_PaintStack writes the pattern to exactly the addresses  *)
(* from the heap end up to, not including, SP - 32, and then sets the      *)
(* painted end to SP - 32; when SP - 32 is not above the heap end it       *)
(* writes nothing and leaves the painted end alone.                        *)
(***************************************************************************)
C7_PaintStaysInRange ==
    [][op' \in {"Init", "TriggerHandshake"} =>
          LET lo == GetHeapEnd(brkval)
              hi == SP - 32
          IN  /\ painted' = {a \in Addr : lo <= a /\ a < hi}
              /\ mem' = [a \in Addr |->
                            IF lo <= a /\ a < hi
                            THEN STACKSCOPE_PAINT_PATTERN ELSE mem[a]]
              /\ stackscope_painted_end' =
                     IF hi > lo THEN hi ELSE stackscope_painted_end
              /\ hi <= lo => painted' = {}]_vars

\* A handshake painted up to SP - 32 above a heap in use.
C7_Witness ==
    /\ op = "TriggerHandshake"
    /\ brkval /= 0
    /\ painted = brkval..(SP - 33)
    /\ painted /= {}
    /\ stackscope_painted_end = SP - 32

(***************************************************************************)
(* C3, as stated.  After a paint, when the stack has since written         *)
(* non-pattern bytes from the painted end down to a lowest address d and   *)
(* nothing was repainted, the next sample reports a stack usage of at      *)
(* least RAMEND - d.                                                       *)
(***************************************************************************)
C3_HighWaterMark ==
    (/\ Sampled
     /\ last_paint = "done"
     /\ low_write < stackscope_painted_end
     /\ \A a \in low_write..(stackscope_painted_end - 1) :
            mem[a] /= STACKSCOPE_PAINT_PATTERN)
        => FrameStackUsage(tx) >= RAMEND - low_write

(***************************************************************************)
(* C8, as stated.  When the latest StackScope_PaintStack was skipped, the  *)
(* next sample reports RAMEND - SP, also when an earlier paint succeeded.  *)
(***************************************************************************)
C8_SkippedPaintFallsBack ==
    (Sampled /\ last_paint = "skipped")
        => FrameStackUsage(tx) = RAMEND - SP

(***************************************************************************)
(* C9.  In every frame the Collision bit is set exactly when the stack     *)
(* pointer is at most 16 above the heap end, whatever the other bits are.  *)
(***************************************************************************)
C9_CollisionBit ==
    Sampled =>
        (HasFlag(tx, STACKSCOPE_FLAG_COLLISION)
            <=> SP <= GetHeapEnd(brkval) + 16)

\* A frame with Collision and HeapActive set and PeakNew clear, sent with
\* the stack pointer exactly 16 above the heap end.
C9_Witness ==
    /\ Sampled
    /\ SP = GetHeapEnd(brkval) + 16
    /\ HasFlag(tx, STACKSCOPE_FLAG_COLLISION)
    /\ HasFlag(tx, STACKSCOPE_FLAG_HEAP_ACTIVE)
    /\ ~HasFlag(tx, STACKSCOPE_FLAG_PEAK_NEW)

(***************************************************************************)
(* C10.  In every frame the Alert bit is set exactly when free_memory is   *)
(* below 50, where free_memory is SP minus the heap end, or 0 when that is *)
(* negative, with no margin taken off; the frame's last field is that      *)
(* value.                                                                  *)
(***************************************************************************)
C10_AlertBit ==
    Sampled =>
        LET free == IF SP - GetHeapEnd(brkval) > 0
                    THEN SP - GetHeapEnd(brkval) ELSE 0
        IN  /\ FrameFreeMemory(tx) = free
            /\ HasFlag(tx, STACKSCOPE_FLAG_ALERT)
                   <=> free < STACKSCOPE_ALERT_THRESHOLD

\* A frame sent with the stack pointer below the heap end: free_memory is 0
\* and Alert is set.
C10_Witness ==
    /\ Sampled
    /\ SP < GetHeapEnd(brkval)
    /\ FrameFreeMemory(tx) = 0
    /\ HasFlag(tx, STACKSCOPE_FLAG_ALERT)

(***************************************************************************)
(* C4.  With the rate limit 256, any 256 consecutive calls of              *)
(* StackScope_Check() on an enabled monitor send exactly one frame, from   *)
(* every starting value of the counter, across its wrap from 65535 to 0    *)
(* as well.                                                                *)
(***************************************************************************)
C4_OneFramePerWindow ==
    /\ wsent <= 1
    /\ wlen = STACKSCOPE_RATE_LIMIT => wsent = 1

\* A window of 256 calls that began before the wrap and ended after it.
C4_Witness ==
    /\ wlen = STACKSCOPE_RATE_LIMIT
    /\ wsent = 1
    /\ stackscope_call_counter = 200

(***************************************************************************)
(* C6, as stated.  With StackScope_TriggerHandshake() called from the      *)
(* receive interrupt, the interrupt stores only to the enable flag, and    *)
(* every 16-bit value the main loop loads from the monitor is a value the  *)
(* variable held.                                                          *)
(***************************************************************************)
C6_InterruptOwnsOnlyEnabled ==
    /\ isr_writes \subseteq {"stackscope_enabled"}
    /\ load_seen = -1 \/ load_seen \in load_held

(***************************************************************************)
(* C11.  A sampling StackScope_Check() writes exactly ten bytes to UDR0:   *)
(* 0xFE, the flags byte, then stack_usage, the peak as stored after the    *)
(* call, heap_usage and free_memory, each as its high byte followed by its *)
(* low byte; every other call of StackScope_Check() writes no byte, so     *)
(* what a call writes is empty or one whole frame.                         *)
(***************************************************************************)
C11_FrameLayout ==
    [][op' = "Check" =>
          LET sampling == /\ stackscope_enabled /= 0
                          /\ (stackscope_call_counter + 1) % 256 = 0
              stack_usage == GetPaintedUsage(stackscope_painted_end, SP,
                                             brkval, mem)
              heap_usage == IF brkval = 0 THEN 0 ELSE brkval - heap_start
              free_memory == IF SP > GetHeapEnd(brkval)
                             THEN SP - GetHeapEnd(brkval) ELSE 0
              hi(w) == w \div 256
              lo(w) == w % 256
          IN  /\ ~sampling => tx' = <<>>
              /\ sampling =>
                    /\ Len(tx') = 10
                    /\ tx'[1] = 254
                    /\ tx'[2] \in 0..15
                    /\ tx'[3] = hi(stack_usage)
                    /\ tx'[4] = lo(stack_usage)
                    /\ tx'[5] = hi(stackscope_peak_usage')
                    /\ tx'[6] = lo(stackscope_peak_usage')
                    /\ tx'[7] = hi(heap_usage)
                    /\ tx'[8] = lo(heap_usage)
                    /\ tx'[9] = hi(free_memory)
                    /\ tx'[10] = lo(free_memory)]_vars

\* A frame whose stack_usage field is 0x07FF, sent with the high byte 0x07
\* first, next to a free_memory field of 0.
C11_Witness ==
    /\ Sampled
    /\ Len(tx) = 10
    /\ tx[3] = 7 /\ tx[4] = 255
    /\ tx[9] = 0 /\ tx[10] = 0

(***************************************************************************)
(* C12.  StackScope_TriggerHandshake() on a monitor that is already        *)
(* enabled leaves it enabled and leaves the peak and the call counter as   *)
(* they were; it writes no byte to UDR0; the only bytes of RAM it changes  *)
(* are bytes it paints, and the painted end changes only when it painted.  *)
(* Called again at once, it changes nothing more.                          *)
(***************************************************************************)
C12_RetriggerKeepsPeak ==
    [][(stackscope_enabled = 1 /\ op' = "TriggerHandshake") =>
          /\ stackscope_enabled' = 1
          /\ stackscope_peak_usage' = stackscope_peak_usage
          /\ stackscope_call_counter' = stackscope_call_counter
          /\ tx' = <<>>
          /\ SP' = SP
          /\ brkval' = brkval
          /\ \A a \in Addr :
                 mem'[a] /= mem[a] =>
                     a \in painted' /\ mem'[a] = STACKSCOPE_PAINT_PATTERN
          /\ stackscope_painted_end' /= stackscope_painted_end =>
                 painted' /= {}
          /\ op = "TriggerHandshake" =>
                 /\ mem' = mem
                 /\ stackscope_painted_end' = stackscope_painted_end]_vars

\* A handshake on a monitor that had counted calls and held a peak: it
\* painted, and the peak and the counter are still there.
C12_Witness ==
    /\ op = "TriggerHandshake"
    /\ stackscope_enabled = 1
    /\ stackscope_peak_usage > 0
    /\ stackscope_call_counter > 0
    /\ painted /= {}

(***************************************************************************)
(* C13.  In every frame the PeakNew bit is set exactly when the frame's    *)
(* stack_usage is above the peak as it was before the call; when set, the  *)
(* peak becomes that stack_usage and the frame's peak field equals its     *)
(* stack_usage field; when clear, the peak stays as it was.                *)
(***************************************************************************)
C13_PeakNewBit ==
    [][(op' = "Check" /\ tx' /= <<>>) =>
          LET new == HasFlag(tx', STACKSCOPE_FLAG_PEAK_NEW)
          IN  /\ new <=> FrameStackUsage(tx') > stackscope_peak_usage
              /\ new => /\ stackscope_peak_usage' = FrameStackUsage(tx')
                        /\ FramePeak(tx') = FrameStackUsage(tx')
              /\ ~new => stackscope_peak_usage' = stackscope_peak_usage]_vars

\* A frame whose stack_usage equals the peak it found: PeakNew is clear.
C13_Witness ==
    /\ Sampled
    /\ ~HasFlag(tx, STACKSCOPE_FLAG_PEAK_NEW)
    /\ FrameStackUsage(tx) = FramePeak(tx)
    /\ FrameStackUsage(tx) > 0

(***************************************************************************)
(* C14.  StackScope_GetPaintedUsage changes no byte of RAM and no variable *)
(* of the monitor, and a call that follows another call with nothing in    *)
(* between returns the same value.                                         *)
(***************************************************************************)
C14_ScanIdempotent ==
    [][op' = "GetPaintedUsage" =>
          /\ mem' = mem
          /\ stackscope_enabled' = stackscope_enabled
          /\ stackscope_call_counter' = stackscope_call_counter
          /\ stackscope_peak_usage' = stackscope_peak_usage
          /\ stackscope_painted_end' = stackscope_painted_end
          /\ SP' = SP
          /\ brkval' = brkval
          /\ op = "GetPaintedUsage" => ret' = ret]_vars

\* A scan after a paint and an excursion of the stack below the painted
\* end: it returned the distance from RAMEND to the painted end.
C14_Witness ==
    /\ op = "GetPaintedUsage"
    /\ last_paint = "done"
    /\ low_write < stackscope_painted_end
    /\ ret = RAMEND - stackscope_painted_end

(***************************************************************************)
(* C15.  While __brkval is null the heap end is read as __heap_start: a    *)
(* frame has heap_usage 0 and HeapActive clear, its free_memory is counted *)
(* from __heap_start, and a paint starts at __heap_start.  In every frame  *)
(* HeapActive is set exactly when the heap_usage field is above 0.         *)
(***************************************************************************)
C15_HeapActiveBit ==
    /\ Sampled =>
          /\ HasFlag(tx, STACKSCOPE_FLAG_HEAP_ACTIVE)
                 <=> FrameHeapUsage(tx) > 0
          /\ brkval = 0 =>
                 /\ FrameHeapUsage(tx) = 0
                 /\ ~HasFlag(tx, STACKSCOPE_FLAG_HEAP_ACTIVE)
                 /\ FrameFreeMemory(tx) =
                        IF SP > heap_start THEN SP - heap_start ELSE 0
    /\ (op = "TriggerHandshake" /\ brkval = 0 /\ painted /= {}) =>
          /\ heap_start \in painted
          /\ \A a \in painted : a >= heap_start

\* A frame sent before anything was allocated, with the stack pointer
\* above __heap_start: heap_usage 0, HeapActive clear.
C15_Witness ==
    /\ Sampled
    /\ brkval = 0
    /\ SP > heap_start
    /\ FrameHeapUsage(tx) = 0
    /\ ~HasFlag(tx, STACKSCOPE_FLAG_HEAP_ACTIVE)
    /\ FrameFreeMemory(tx) = SP - heap_start

(***************************************************************************)
(* C16.  If UDRE0 is set again and again, every call of StackScope_Check() *)
(* returns; the scan loop never goes below the heap end when it started    *)
(* above it; and when UDRE0 stays clear from some point of a sampling      *)
(* call, that call never returns: it leaves the wait only by a write to    *)
(* UDR0 with UDRE0 set.                                                    *)
(***************************************************************************)
C16_BlocksOnlyOnTransport ==
    /\ []<>(udre = 1) => ((pc /= "idle") ~> (pc = "idle"))
    /\ []((pc = "send" /\ [](udre = 0)) => [](pc = "send"))
    /\ [](pc = "scan" =>
             /\ scan_ptr <= stackscope_painted_end
             /\ \/ scan_ptr >= GetHeapEnd(brkval)
                \/ scan_ptr = stackscope_painted_end)
    /\ [][(pc = "send" /\ pc' /= "send") =>
              udre = 1 /\ Len(tx') = FrameLen]_vars

\* A sampling call that has returned: its scan went down to the heap end
\* and its ten bytes were written, each after a wait for UDRE0.
C16_Witness ==
    /\ pc = "idle"
    /\ op = "Check"
    /\ Len(tx) = FrameLen
    /\ stackscope_painted_end /= 0
    /\ scan_ptr = GetHeapEnd(brkval)
    /\ scan_ptr < stackscope_painted_end
    /\ udre = 0

(***************************************************************************)
(* C17.  The painted end changes only in a StackScope_PaintStack that      *)
(* painted, which makes it the stack pointer of that call minus 32;        *)
(* StackScope_Check, StackScope_GetPaintedUsage, StackScope_ResetPeak and  *)
(* a StackScope_PaintStack that found no room leave it as it was.          *)
(***************************************************************************)
C17_PaintedEndOnlyByPaint ==
    [][/\ stackscope_painted_end' /= stackscope_painted_end =>
              /\ op' \in {"Init", "TriggerHandshake"}
              /\ painted' /= {}
              /\ stackscope_painted_end' = SP - 32
       /\ op' \in {"Check", "GetPaintedUsage", "ResetPeak"} =>
              stackscope_painted_end' = stackscope_painted_end
       /\ (/\ op' \in {"Init", "TriggerHandshake"}
           /\ SP - 32 <= GetHeapEnd(brkval)) =>
              stackscope_painted_end' = stackscope_painted_end]_vars

\* A handshake that found no room to paint after an earlier paint: the
\* painted end is still the one of the earlier paint, above SP - 32.
C17_Witness ==
    /\ op = "TriggerHandshake"
    /\ last_paint = "skipped"
    /\ painted = {}
    /\ stackscope_painted_end > SP - 32
    /\ stackscope_painted_end > GetHeapEnd(brkval)

(***************************************************************************)
(* C18.  With the stack pointer anywhere in RAM and the heap break         *)
(* anywhere from __heap_start to RAMEND, after any paints and moves of the *)
(* break, the fields of a frame are differences of integers that did not   *)
(* wrap: heap_usage is the break minus __heap_start, free_memory is the    *)
(* stack pointer minus the heap end or 0, stack_usage is RAMEND minus an   *)
(* address of RAM that is the stack pointer or is not above the painted    *)
(* end, and none of the three is above the size of RAM.                    *)
(***************************************************************************)
C18_NoWraparound ==
    Sampled =>
        /\ FrameHeapUsage(tx) = IF brkval = 0 THEN 0 ELSE brkval - heap_start
        /\ FrameFreeMemory(tx) =
               IF SP - GetHeapEnd(brkval) > 0
               THEN SP - GetHeapEnd(brkval) ELSE 0
        /\ \E a \in STACKSCOPE_RAMSTART..RAMEND :
               /\ FrameStackUsage(tx) = RAMEND - a
               /\ \/ a = SP
                  \/ stackscope_painted_end /= 0 /\ a <= stackscope_painted_end
        /\ FrameStackUsage(tx) <= STACKSCOPE_RAMSIZE
        /\ FrameHeapUsage(tx) <= STACKSCOPE_RAMSIZE
        /\ FrameFreeMemory(tx) <= STACKSCOPE_RAMSIZE

\* A frame sent after a paint, with the stack pointer since gone below
\* __heap_start and the heap break at RAMEND, above the painted end.
C18_Witness ==
    /\ Sampled
    /\ SP < heap_start
    /\ brkval = RAMEND
    /\ stackscope_painted_end /= 0
    /\ FrameStackUsage(tx) = RAMEND - stackscope_painted_end
    /\ FrameHeapUsage(tx) = RAMEND - heap_start
    /\ FrameFreeMemory(tx) = 0

(***************************************************************************)
(* C19.  With every operation of the monitor called from the main loop, in *)
(* every frame the peak field is at least the stack_usage field, after     *)
(* StackScope_ResetPeak() and StackScope_Init() as well.                   *)
(***************************************************************************)
C19_PeakCoversUsage ==
    Sampled => FramePeak(tx) >= FrameStackUsage(tx)

\* A frame whose peak field is above its stack_usage field, sent with the
\* heap in use.
C19_Witness ==
    /\ Sampled
    /\ brkval /= 0
    /\ FramePeak(tx) > FrameStackUsage(tx)

(***************************************************************************)
(* C20.  With the alert threshold 50 and the collision margin 16, no frame *)
(* has the Collision bit set and the Alert bit clear.                      *)
(***************************************************************************)
C20_CollisionImpliesAlert ==
    Sampled =>
        (HasFlag(tx, STACKSCOPE_FLAG_COLLISION)
            => HasFlag(tx, STACKSCOPE_FLAG_ALERT))

\* A frame with both bits set at the edge of the collision margin, where
\* free_memory is 16.
C20_Witness ==
    /\ Sampled
    /\ HasFlag(tx, STACKSCOPE_FLAG_COLLISION)
    /\ HasFlag(tx, STACKSCOPE_FLAG_ALERT)
    /\ FrameFreeMemory(tx) = 16

====
